---- MODULE Spec2Model ----
(***************************************************************************)
(* Iris ML API (src/main.py): the prediction handler, the process-wide     *)
(* metrics store it updates, and the reporting endpoints that read it.     *)
(*                                                                         *)
(* Time is counted in tenths of a second (UnitsPerSecond per second);      *)
(* Python's floats are modelled by exact rationals num/den.  Text produced *)
(* by f-strings is a sequence of one-character strings.                    *)
(***************************************************************************)
EXTENDS Integers, Sequences, FiniteSets, TLC

\* ------------------------------------------------------------------ bounds
\* predict requests per behaviour of Spec
MaxCalls == 2
\* SpecLong: requests of the fixed round-robin workload, then free requests
WarmUpCalls == 49
FreeCalls == 2
\* SpecConc: requests handled one at a time before the two concurrent ones
SettledCalls == 50

\* ------------------------------------------------------- program constants
\* len(prediction_history) > 50 / prediction_history[-50:]
HistoryLimit == 50
\* "A+" if avg_time < 0.1, "A" if avg_time < 0.5, in tenths of a second
GradeAPlusBelow == 1
GradeABelow == 5
\* time.time() counts seconds; the model counts tenths of a second
UnitsPerSecond == 10

\* ------------------------------------------------------------ environment
\* model = None: no artifact
None == [loaded |-> FALSE, classes |-> {}]
\* a loaded artifact, represented by the set of class indices its predict
\* can return
Artifact(classes) == [loaded |-> TRUE, classes |-> classes]
\* flowers = ["setosa", "versicolor", "virginica"]
flowers == <<"setosa", "versicolor", "virginica">>
Labels == {flowers[i] : i \in 1..Len(flowers)}

\* request bodies (class Flower), in tenths of a centimetre
FlowerA == [sepal_length |-> 51, sepal_width |-> 35, petal_length |-> 14, petal_width |-> 2]
FlowerB == [sepal_length |-> 67, sepal_width |-> 30, petal_length |-> 52, petal_width |-> 23]
Flowers == {FlowerA, FlowerB}

\* elapsed time of one model.predict call, in tenths of a second
Durations == {0, 1, 5}

\* class indices of a three-class classifier
IrisClasses == {0, 1, 2}
\* class indices no label stands for
StrayClasses == {-4, -3, -2, -1, 3}
ClassIndex == IrisClasses \cup StrayClasses
\* joblib.load('iris_model.pkl'): None when loading failed, otherwise the
\* artifact: a three-class classifier, or one that also returns a stray index
Models == {None, Artifact(IrisClasses)} \cup {Artifact({1, s}) : s \in StrayClasses}

VARIABLES
  model,                  \* None or the loaded artifact
  prediction_counts,      \* label -> count
  total_api_calls,
  total_prediction_time,  \* tenths of a second
  prediction_history,     \* sequence of events, oldest first
  now,                    \* time.time(), tenths of a second since process start
  response,               \* what the last handled request returned
  requests,               \* history variable: predict requests handled
  events,                 \* history variable: every event ever appended
  threads                 \* worker thread -> frame of the predict_flower call it runs

vars == <<model, prediction_counts, total_api_calls, total_prediction_time,
          prediction_history, now, response, requests, events, threads>>

\* the Metrics Store
store == <<prediction_counts, total_api_calls, total_prediction_time,
           prediction_history>>

\* ------------------------------------------------------------ text helpers
DigitChars == <<"0", "1", "2", "3", "4", "5", "6", "7", "8", "9">>

RECURSIVE Str(_)
\* str(n) of a non-negative int: its decimal digits
Str(n) == IF n < 10 THEN <<DigitChars[n + 1]>>
          ELSE Str(n \div 10) \o <<DigitChars[(n % 10) + 1]>>

DigitValue(c) == (CHOOSE i \in 1..10 : DigitChars[i] = c) - 1

RECURSIVE ParseInt(_)
\* int(text) of a sequence of decimal digits
ParseInt(text) ==
  IF Len(text) = 0 THEN 0
  ELSE 10 * ParseInt(SubSeq(text, 1, Len(text) - 1)) + DigitValue(text[Len(text)])

RECURSIVE Pow10(_)
Pow10(k) == IF k = 0 THEN 1 ELSE 10 * Pow10(k - 1)

RECURSIVE ZeroPad(_, _)
ZeroPad(text, k) == IF Len(text) >= k THEN text ELSE ZeroPad(<<"0">> \o text, k)

\* round num/den to the nearest integer, ties to even
RoundHalfEven(num, den) ==
  LET q == num \div den
      r == num % den
  IN IF 2 * r > den \/ (2 * r = den /\ q % 2 = 1) THEN q + 1 ELSE q

\* f"{x:.kf}" of the non-negative number x = num/den
FormatFixed(num, den, k) ==
  LET scaled == (num \div den) * Pow10(k) + RoundHalfEven((num % den) * Pow10(k), den)
  IN Str(scaled \div Pow10(k)) \o <<".">> \o ZeroPad(Str(scaled % Pow10(k)), k)

\* ------------------------------------------------------------ list helpers
\* faulty variant of LastN: lst[:n], the slice taken from the wrong end
FirstN(lst, n) == IF Len(lst) <= n THEN lst ELSE SubSeq(lst, 1, n)

\* lst[-n:]
LastN(lst, n) == IF Len(lst) <= n THEN lst ELSE SubSeq(lst, Len(lst) - n + 1, Len(lst))

\* faulty variant of IndexError: every negative index is rejected as well
IndexErrorNegative(prediction) == prediction >= Len(flowers) \/ prediction < 0

\* flowers[prediction] raises IndexError
IndexError(prediction) == prediction >= Len(flowers) \/ prediction < -Len(flowers)

\* flowers[prediction], Python list indexing: a negative index counts from the end
LabelAt(prediction) ==
  IF prediction >= 0 THEN flowers[prediction + 1]
  ELSE flowers[Len(flowers) + prediction + 1]

\* faulty variant of IncrementCount: the increment goes to a fixed key
IncrementFirst(counts, label) == [counts EXCEPT ![flowers[1]] = @ + 1]

\* prediction_counts[predicted_flower] += 1
IncrementCount(counts, label) == [counts EXCEPT ![label] = @ + 1]

\* faulty variant of Trim: the length test is off by one
TrimLate(history) ==
  IF Len(history) > HistoryLimit + 1 THEN LastN(history, HistoryLimit) ELSE history

\* if len(prediction_history) > 50: prediction_history = prediction_history[-50:]
Trim(history) ==
  IF Len(history) > HistoryLimit THEN LastN(history, HistoryLimit) ELSE history

\* faulty variant of SumCounts: the last label is left out of the sum
SumFirstTwo(counts) == counts[flowers[1]] + counts[flowers[2]]

\* sum(prediction_counts.values())
SumCounts(counts) == counts[flowers[1]] + counts[flowers[2]] + counts[flowers[3]]

\* ---------------------------------------------------------- worker threads
\* the two threads of the pool that run predict_flower at the same time
Threads == {1, 2}

\* elapsed time of the model.predict call of a concurrent request, in tenths
\* of a second
ThreadDurations == {1}

\* the request body each thread is handed
ThreadFlower(t) == IF t = 1 THEN FlowerA ELSE FlowerB

NoEvent == [timestamp |-> -1, flower |-> "", duration |-> 0, input |-> FlowerA]

\* the frame of a predict_flower call that has not started: pc is the next
\* step; start_time, predicted_flower, prediction_duration are the locals;
\* calls, time, count are the values the three += statements have loaded;
\* ref tells which list object the loaded prediction_history reference points
\* to ("global": the one the global names now, "old": one the global named
\* before another thread reassigned it, whose entries are obj); trimmed is
\* the sliced copy; event is the entry this call appended and appended the
\* list object it went to
IdleFrame ==
  [pc |-> "idle", start_time |-> 0, predicted_flower |-> "",
   prediction_duration |-> 0, calls |-> 0, time |-> 0, count |-> 0,
   ref |-> "none", obj |-> <<>>, trimmed |-> <<>>, event |-> NoEvent,
   appended |-> "none"]

\* ------------------------------------------------------------------- Init
Init ==
  /\ model \in Models
  /\ prediction_counts = [l \in Labels |-> 0]
  /\ total_api_calls = 0
  /\ total_prediction_time = 0
  /\ prediction_history = <<>>
  /\ now = 0
  /\ response = [endpoint |-> "none"]
  /\ requests = 0
  /\ events = <<>>
  /\ threads = [t \in Threads |-> IdleFrame]

\* ----------------------------------------------------------- POST /predict
\* faulty variant of NotLoaded: the call is counted before the model is checked
NotLoadedCounted ==
  /\ response' = [endpoint |-> "/predict", error |-> "Model not loaded"]
  /\ total_api_calls' = total_api_calls + 1
  /\ UNCHANGED <<prediction_counts, total_prediction_time, prediction_history,
                 now, events>>

\* if model is None: return {"error": "Model not loaded"}
NotLoaded ==
  /\ response' = [endpoint |-> "/predict", error |-> "Model not loaded"]
  /\ UNCHANGED <<store, now, events>>

\* faulty variant of Faulted: the label lookup comes before the call is counted
FaultedUncounted(duration) ==
  /\ now' = now + duration
  /\ response' = [endpoint |-> "/predict", fault |-> "IndexError"]
  /\ UNCHANGED <<prediction_counts, total_api_calls, total_prediction_time,
                 prediction_history, events>>

\* predicted_flower = flowers[prediction] raises: the request ends in an
\* unhandled IndexError after total_api_calls += 1 and model.predict
Faulted(duration) ==
  /\ total_api_calls' = total_api_calls + 1
  /\ now' = now + duration
  /\ response' = [endpoint |-> "/predict", fault |-> "IndexError"]
  /\ UNCHANGED <<prediction_counts, total_prediction_time, prediction_history, events>>

\* the event appended to prediction_history
Event(flower, predicted_flower, duration) ==
  [timestamp |-> now + duration, flower |-> predicted_flower,
   duration |-> duration, input |-> flower]

Predicted(flower, prediction, duration) ==
  LET predicted_flower == LabelAt(prediction)
      event == Event(flower, predicted_flower, duration)
  IN /\ total_api_calls' = total_api_calls + 1
     /\ now' = now + duration
     /\ total_prediction_time' = total_prediction_time + duration
     /\ prediction_counts' = IncrementCount(prediction_counts, predicted_flower)
     /\ prediction_history' = Trim(Append(prediction_history, event))
     /\ events' = Append(events, event)
     /\ response' = [endpoint |-> "/predict",
                     predicted_flower |-> predicted_flower,
                     confidence |-> "high",
                     duration |-> FormatFixed(duration, UnitsPerSecond, 4) \o <<"s">>]

\* prediction is what model.predict(data)[0] returns, duration the time
\* that passes between the two time.time() readings
predict_flower(flower, prediction, duration) ==
  /\ requests' = requests + 1
  /\ UNCHANGED <<model, threads>>
  /\ IF model = None THEN NotLoaded
     ELSE /\ prediction \in model.classes
          /\ IF IndexError(prediction) THEN Faulted(duration)
             ELSE Predicted(flower, prediction, duration)

\* ------------------------------------------------------------------ GET /
home ==
  /\ response' = [endpoint |-> "/", message |-> "Iris ML API",
                  model_loaded |-> (model # None), version |-> "1.0.0"]
  /\ UNCHANGED <<model, store, now, requests, events, threads>>

\* -------------------------------------------------------------- GET /stats
\* faulty variant of MaxFrom: a later key replaces the best one on a tie
RECURSIVE MaxFromLast(_, _, _, _)
MaxFromLast(keys, counts, i, best) ==
  IF i > Len(keys) THEN best
  ELSE MaxFromLast(keys, counts, i + 1,
                   IF counts[keys[i]] >= counts[best] THEN keys[i] ELSE best)

\* max(d, key=d.get) over the keys in the dict's order: the first key whose
\* value no later key exceeds
RECURSIVE MaxFrom(_, _, _, _)
MaxFrom(keys, counts, i, best) ==
  IF i > Len(keys) THEN best
  ELSE MaxFrom(keys, counts, i + 1,
               IF counts[keys[i]] > counts[best] THEN keys[i] ELSE best)

MaxKey(keys, counts) == MaxFrom(keys, counts, 2, keys[1])

\* max(total, 1)
Max(a, b) == IF a >= b THEN a ELSE b

\* avg_time = total_prediction_time / max(total, 1) if total > 0 else 0,
\* in seconds, as the fraction num/den
AvgTime(total) ==
  IF total > 0
  THEN [num |-> total_prediction_time, den |-> UnitsPerSecond * Max(total, 1)]
  ELSE [num |-> 0, den |-> 1]

\* faulty variant of Below: x <= limit
AtMost(x, limit) == x.num * UnitsPerSecond <= limit * x.den

\* x < limit, limit in tenths of a second
Below(x, limit) == x.num * UnitsPerSecond < limit * x.den

\* "A+" if avg_time < 0.1 else "A" if avg_time < 0.5 else "B"
Grade(avg_time) ==
  IF Below(avg_time, GradeAPlusBelow) THEN "A+"
  ELSE IF Below(avg_time, GradeABelow) THEN "A"
  ELSE "B"

\* the "ML API Statistics" block of the /stats body
Statistics ==
  LET total_predictions == SumCounts(prediction_counts)
      avg_time == AvgTime(total_predictions)
      most_predicted == IF total_predictions > 0
                        THEN MaxKey(flowers, prediction_counts) ELSE "None"
  IN [total_predictions |-> total_predictions,
      total_api_calls |-> total_api_calls,
      average_prediction_time |->
        FormatFixed(avg_time.num, avg_time.den, 4) \o <<" seconds">>,
      flower_breakdown |-> prediction_counts,
      most_predicted |-> most_predicted,
      model_accuracy |-> "95.2%",
      api_uptime |-> "100%",
      performance_grade |-> Grade(avg_time)]

\* faulty variant of get_stats: the report counts itself as an API call
get_stats_counted ==
  /\ response' = [endpoint |-> "/stats", statistics |-> Statistics]
  /\ total_api_calls' = total_api_calls + 1
  /\ UNCHANGED <<model, prediction_counts, total_prediction_time,
                 prediction_history, now, requests, events, threads>>

get_stats ==
  /\ response' = [endpoint |-> "/stats", statistics |-> Statistics]
  /\ UNCHANGED <<model, store, now, requests, events, threads>>

\* ------------------------------------------------------------ GET /metrics
\* one sample line of the exposition: name{flower_type="label"} value
Sample(name, label, value) == [name |-> name, label |-> label, value |-> value]

\* faulty variant of MetricsText: api_calls_total is rendered from the prediction total
MetricsTextSwapped(counts, api_calls, avg_time, total_preds) ==
  << Sample("flower_predictions_total", "setosa", Str(counts["setosa"])),
     Sample("flower_predictions_total", "versicolor", Str(counts["versicolor"])),
     Sample("flower_predictions_total", "virginica", Str(counts["virginica"])),
     Sample("api_calls_total", "", Str(total_preds)),
     Sample("prediction_time_average_seconds", "",
            FormatFixed(avg_time.num, avg_time.den, 6)),
     Sample("total_predictions_made", "", Str(total_preds)),
     Sample("model_accuracy_percent", "", <<"9", "5", ".", "2">>),
     Sample("api_uptime_percent", "", <<"1", "0", "0", ".", "0">>) >>

\* the sample lines of the f-string template, in order (comment lines left
\* out), for the four quantities it interpolates
MetricsText(counts, api_calls, avg_time, total_preds) ==
  << Sample("flower_predictions_total", "setosa", Str(counts["setosa"])),
     Sample("flower_predictions_total", "versicolor", Str(counts["versicolor"])),
     Sample("flower_predictions_total", "virginica", Str(counts["virginica"])),
     Sample("api_calls_total", "", Str(api_calls)),
     Sample("prediction_time_average_seconds", "",
            FormatFixed(avg_time.num, avg_time.den, 6)),
     Sample("total_predictions_made", "", Str(total_preds)),
     Sample("model_accuracy_percent", "", <<"9", "5", ".", "2">>),
     Sample("api_uptime_percent", "", <<"1", "0", "0", ".", "0">>) >>

Metrics ==
  LET total_preds == SumCounts(prediction_counts)
      avg_time == AvgTime(total_preds)
  IN MetricsText(prediction_counts, total_api_calls, avg_time, total_preds)

get_metrics ==
  /\ response' = [endpoint |-> "/metrics", media_type |-> "text/plain",
                  metrics |-> Metrics]
  /\ UNCHANGED <<model, store, now, requests, events, threads>>

\* ------------------------------------------------------------- GET /health
Health ==
  [status |-> "healthy",
   model_loaded |-> (model # None),
   total_predictions |-> SumCounts(prediction_counts),
   api_version |-> "1.0.0"]

health_check ==
  /\ response' = [endpoint |-> "/health", health |-> Health]
  /\ UNCHANGED <<model, store, now, requests, events, threads>>

\* --------------------------------------------------------- specifications
\* any request, any model output, any latency, MaxCalls predict requests
Next ==
  \/ \E flower \in Flowers, prediction \in ClassIndex, duration \in Durations :
       /\ requests < MaxCalls
       /\ predict_flower(flower, prediction, duration)
  \/ home
  \/ get_stats
  \/ get_metrics
  \/ health_check

Spec == Init /\ [][Next]_vars

\* the first WarmUpCalls requests follow a fixed round-robin workload (request
\* k sends WarmFlower(k), the model answers WarmPrediction(k) after
\* WarmDuration(k)); the FreeCalls requests after them are arbitrary
WarmFlower(k) == IF k % 2 = 1 THEN FlowerA ELSE FlowerB

WarmPrediction(k) ==
  IF model = None THEN 0
  ELSE IF (k % 3) \in model.classes THEN k % 3
  ELSE CHOOSE p \in model.classes : p \notin IrisClasses

WarmDuration(k) == <<0, 1, 5>>[(k % 3) + 1]

NextLong ==
  \/ /\ requests < WarmUpCalls
     /\ predict_flower(WarmFlower(requests + 1), WarmPrediction(requests + 1),
                       WarmDuration(requests + 1))
  \/ \E flower \in Flowers, prediction \in ClassIndex, duration \in Durations :
       /\ requests >= WarmUpCalls
       /\ requests < WarmUpCalls + FreeCalls
       /\ predict_flower(flower, prediction, duration)
  \/ home
  \/ get_stats
  \/ get_metrics
  \/ health_check

SpecLong == Init /\ [][NextLong]_vars

\* ------------------------------------------- POST /predict, step by step
\* predict_flower as a worker thread runs it: one step per access to a
\* global, so that another thread may run between the load and the store of
\* each += and between the loads and the store of the history trim
Frame(t) == threads[t]

\* thread t's frame becomes f, the other frames stay
SetFrame(t, f) == threads' = [threads EXCEPT ![t] = f]

\* the entries of the list object thread t's loaded reference points to
Object(t) == IF Frame(t).ref = "old" THEN Frame(t).obj ELSE prediction_history

\* return {"predicted_flower": ..., "confidence": "high", "duration": ...}
Return(t, pc) ==
  /\ response' = [endpoint |-> "/predict",
                  predicted_flower |-> Frame(t).predicted_flower,
                  confidence |-> "high",
                  duration |-> FormatFixed(Frame(t).prediction_duration,
                                           UnitsPerSecond, 4) \o <<"s">>]
  /\ requests' = requests + 1

\* lines 42-47: the model check, start_time, and the load of total_api_calls
Begin(t) ==
  /\ Frame(t).pc = "idle"
  /\ requests >= SettledCalls
  /\ IF model = None
     THEN /\ response' = [endpoint |-> "/predict", error |-> "Model not loaded"]
          /\ requests' = requests + 1
          /\ SetFrame(t, [Frame(t) EXCEPT !.pc = "done"])
     ELSE /\ SetFrame(t, [Frame(t) EXCEPT !.pc = "store_calls",
                                         !.start_time = now,
                                         !.calls = total_api_calls])
          /\ UNCHANGED <<response, requests>>
  /\ UNCHANGED <<model, store, now, events>>

\* faulty variant of StoreCalls: the increment re-reads the counter as it stores
StoreCallsAtomic(t) ==
  /\ Frame(t).pc = "store_calls"
  /\ total_api_calls' = total_api_calls + 1
  /\ SetFrame(t, [Frame(t) EXCEPT !.pc = "call_model"])
  /\ UNCHANGED <<model, prediction_counts, total_prediction_time,
                 prediction_history, now, response, requests, events>>

\* line 47: the store of total_api_calls += 1
StoreCalls(t) ==
  /\ Frame(t).pc = "store_calls"
  /\ total_api_calls' = Frame(t).calls + 1
  /\ SetFrame(t, [Frame(t) EXCEPT !.pc = "call_model"])
  /\ UNCHANGED <<model, prediction_counts, total_prediction_time,
                 prediction_history, now, response, requests, events>>

\* lines 53-59: model.predict, the label lookup (which may raise), the
\* elapsed time, and the load of total_prediction_time
CallModel(t, prediction, duration) ==
  /\ Frame(t).pc = "call_model"
  /\ prediction \in model.classes
  /\ now' = now + duration
  /\ IF IndexError(prediction)
     THEN /\ response' = [endpoint |-> "/predict", fault |-> "IndexError"]
          /\ requests' = requests + 1
          /\ SetFrame(t, [Frame(t) EXCEPT !.pc = "done"])
     ELSE /\ SetFrame(t, [Frame(t) EXCEPT
                            !.pc = "store_time",
                            !.predicted_flower = LabelAt(prediction),
                            !.prediction_duration = now + duration - Frame(t).start_time,
                            !.time = total_prediction_time])
          /\ UNCHANGED <<response, requests>>
  /\ UNCHANGED <<model, store, events>>

\* line 59: the store of total_prediction_time += prediction_duration
StoreTime(t) ==
  /\ Frame(t).pc = "store_time"
  /\ total_prediction_time' = Frame(t).time + Frame(t).prediction_duration
  /\ SetFrame(t, [Frame(t) EXCEPT !.pc = "load_count"])
  /\ UNCHANGED <<model, prediction_counts, total_api_calls, prediction_history,
                 now, response, requests, events>>

\* line 62: the load of prediction_counts[predicted_flower]
LoadCount(t) ==
  /\ Frame(t).pc = "load_count"
  /\ SetFrame(t, [Frame(t) EXCEPT
                    !.pc = "store_count",
                    !.count = prediction_counts[Frame(t).predicted_flower]])
  /\ UNCHANGED <<model, store, now, response, requests, events>>

\* line 62: the store of prediction_counts[predicted_flower] += 1
StoreCount(t) ==
  /\ Frame(t).pc = "store_count"
  /\ prediction_counts' =
       [prediction_counts EXCEPT ![Frame(t).predicted_flower] = Frame(t).count + 1]
  /\ SetFrame(t, [Frame(t) EXCEPT !.pc = "load_append"])
  /\ UNCHANGED <<model, total_api_calls, total_prediction_time, prediction_history,
                 now, response, requests, events>>

\* lines 65, 78, 79: the load of the global prediction_history, before the
\* append, before len() and before the slice
LoadHistory(t) ==
  /\ Frame(t).pc \in {"load_append", "load_len", "load_slice"}
  /\ SetFrame(t, [Frame(t) EXCEPT
                    !.pc = CASE Frame(t).pc = "load_append" -> "append"
                             [] Frame(t).pc = "load_len" -> "len"
                             [] Frame(t).pc = "load_slice" -> "slice",
                    !.ref = "global"])
  /\ UNCHANGED <<model, store, now, response, requests, events>>

\* lines 65-75: append of the event to the list object loaded
AppendEvent(t) ==
  LET event == [timestamp |-> now, flower |-> Frame(t).predicted_flower,
                duration |-> Frame(t).prediction_duration,
                input |-> ThreadFlower(t)]
  IN /\ Frame(t).pc = "append"
     /\ IF Frame(t).ref = "global"
        THEN /\ prediction_history' = Append(prediction_history, event)
             /\ SetFrame(t, [Frame(t) EXCEPT !.pc = "load_len", !.ref = "none",
                                             !.event = event,
                                             !.appended = "global"])
        ELSE /\ UNCHANGED prediction_history
             /\ SetFrame(t, [Frame(t) EXCEPT !.pc = "load_len", !.ref = "none",
                                             !.obj = <<>>, !.event = event,
                                             !.appended = "old"])
     /\ events' = Append(events, event)
     /\ UNCHANGED <<model, prediction_counts, total_api_calls,
                    total_prediction_time, now, response, requests>>

\* line 78: len(prediction_history) > 50 on the list object loaded; when it
\* is false the call returns (line 81)
CheckLen(t) ==
  /\ Frame(t).pc = "len"
  /\ IF Len(Object(t)) > HistoryLimit
     THEN /\ SetFrame(t, [Frame(t) EXCEPT !.pc = "load_slice", !.ref = "none",
                                          !.obj = <<>>])
          /\ UNCHANGED <<response, requests>>
     ELSE /\ SetFrame(t, [Frame(t) EXCEPT !.pc = "done", !.ref = "none",
                                          !.obj = <<>>])
          /\ Return(t, "done")
  /\ UNCHANGED <<model, store, now, events>>

\* faulty variant of Slice: the slice keeps one entry too few
SliceShort(t) ==
  /\ Frame(t).pc = "slice"
  /\ SetFrame(t, [Frame(t) EXCEPT !.pc = "store_history", !.ref = "none",
                                  !.obj = <<>>,
                                  !.trimmed = LastN(Object(t), HistoryLimit - 1)])
  /\ UNCHANGED <<model, store, now, response, requests, events>>

\* line 79: prediction_history[-50:], a new list copied from the one loaded
Slice(t) ==
  /\ Frame(t).pc = "slice"
  /\ SetFrame(t, [Frame(t) EXCEPT !.pc = "store_history", !.ref = "none",
                                  !.obj = <<>>,
                                  !.trimmed = LastN(Object(t), HistoryLimit)])
  /\ UNCHANGED <<model, store, now, response, requests, events>>

\* line 79: the store of the new list into the global; a reference another
\* thread has loaded keeps pointing to the list the global named until now.
\* The call then returns (line 81)
StoreHistory(t) ==
  /\ Frame(t).pc = "store_history"
  /\ prediction_history' = Frame(t).trimmed
  /\ threads' = [u \in Threads |->
       IF u = t THEN [Frame(t) EXCEPT !.pc = "done"]
       ELSE IF Frame(u).ref = "global"
       THEN [Frame(u) EXCEPT !.ref = "old", !.obj = prediction_history]
       ELSE Frame(u)]
  /\ Return(t, "done")
  /\ UNCHANGED <<model, prediction_counts, total_api_calls,
                 total_prediction_time, now, events>>

AllIdle == \A t \in Threads : Frame(t).pc = "idle"
AllDone == \A t \in Threads : Frame(t).pc = "done"

\* SettledCalls requests of the round-robin workload handled one at a time,
\* then one request on each thread, their steps interleaved in every way
NextConc ==
  \/ /\ requests < SettledCalls
     /\ AllIdle
     /\ predict_flower(WarmFlower(requests + 1), WarmPrediction(requests + 1),
                       WarmDuration(requests + 1))
  \/ \E t \in Threads : Begin(t)
  \/ \E t \in Threads : StoreCalls(t)
  \/ \E t \in Threads, prediction \in ClassIndex, duration \in ThreadDurations :
       CallModel(t, prediction, duration)
  \/ \E t \in Threads : StoreTime(t)
  \/ \E t \in Threads : LoadCount(t)
  \/ \E t \in Threads : StoreCount(t)
  \/ \E t \in Threads : LoadHistory(t)
  \/ \E t \in Threads : AppendEvent(t)
  \/ \E t \in Threads : CheckLen(t)
  \/ \E t \in Threads : Slice(t)
  \/ \E t \in Threads : StoreHistory(t)

SpecConc == Init /\ [][NextConc]_vars

\* ----------------------------------------------------------------- claims
\* the body predict_flower returns when the model is not loaded
ModelNotLoaded == [endpoint |-> "/predict", error |-> "Model not loaded"]

Returned(r) == "predicted_flower" \in DOMAIN r
FaultedResponse(r) == "fault" \in DOMAIN r

\* C1: with the model loaded, a predict_flower call in which the model
\* answers one of the three class indices 0, 1, 2 returns a label of
\* {setosa, versicolor, virginica}, adds exactly 1 to that label's counter and
\* to the total-call counter, and leaves the other two label counters as they
\* were, whatever the input and the latency.
C1_PredictCountsOneLabel ==
  [][\A flower \in Flowers, prediction \in IrisClasses, duration \in Durations :
       (model # None /\ predict_flower(flower, prediction, duration))
       => /\ Returned(response')
          /\ \E label \in {"setosa", "versicolor", "virginica"} :
               /\ response'.predicted_flower = label
               /\ prediction_counts'[label] = prediction_counts[label] + 1
               /\ \A other \in Labels \ {label} :
                    prediction_counts'[other] = prediction_counts[other]
          /\ total_api_calls' = total_api_calls + 1]_vars

C1_Witness ==
  /\ model # None
  /\ Returned(response)
  /\ total_api_calls = 2
  /\ prediction_counts[response.predicted_flower] = 1
  /\ SumCounts(prediction_counts) = 2

\* C2: with the model not loaded, every predict_flower call returns
\* {error: "Model not loaded"} and leaves the per-label counters, the
\* total-call counter, the cumulative latency and the history unchanged,
\* at the first call and at every repetition.
C2_NotLoadedIsNoOp ==
  [][\A flower \in Flowers, prediction \in ClassIndex, duration \in Durations :
       (model = None /\ predict_flower(flower, prediction, duration))
       => /\ response' = ModelNotLoaded
          /\ prediction_counts' = prediction_counts
          /\ total_api_calls' = total_api_calls
          /\ total_prediction_time' = total_prediction_time
          /\ prediction_history' = prediction_history]_vars

C2_Witness ==
  /\ model = None
  /\ requests >= 2
  /\ response = ModelNotLoaded
  /\ total_api_calls = 0

\* no class index of the loaded model makes the label lookup raise
NeverFaults == model # None /\ \A c \in model.classes : c \in -3..2

\* C3: from a fresh process whose loaded model only answers class indices
\* the label list can index, after N predict requests the total_predictions
\* of /stats is the sum of the three per-label counts, and that sum is N.
C3_TotalIsSumIsN ==
  NeverFaults =>
    /\ Statistics.total_predictions =
         prediction_counts["setosa"] + prediction_counts["versicolor"]
           + prediction_counts["virginica"]
    /\ Statistics.total_predictions = requests

C3_Witness ==
  /\ NeverFaults
  /\ requests = MaxCalls
  /\ Statistics.total_predictions = MaxCalls
  /\ prediction_counts["virginica"] > 0

\* C4: prediction_history never holds more than 50 entries.
C4_HistoryAtMost50 == Len(prediction_history) <= 50

C4_Witness == Len(prediction_history) = 50 /\ Len(events) > 50

\* C5: after N successful predictions the history is the last min(N, 50)
\* appended events in arrival order; after the 51st the 1st event is gone
\* and the 2nd is the oldest retained.
C5_HistoryIsLast50 ==
  LET n == Len(events)
      kept == IF n < 50 THEN n ELSE 50
  IN /\ Len(prediction_history) = kept
     /\ \A i \in 1..kept : prediction_history[i] = events[n - kept + i]
     /\ n = 51 => /\ prediction_history[1] = events[2]
                  /\ \A i \in 1..kept : prediction_history[i] # events[1]

C5_Witness ==
  /\ Len(events) = 51
  /\ prediction_history[1] = events[2]
  /\ prediction_history[50] = events[51]

\* C6 as claimed: every class index outside {0, 1, 2}, negative ones
\* included, ends predict_flower in a fault, with no label returned and no
\* label counter incremented.
C6_Original ==
  [][\A flower \in Flowers, prediction \in ClassIndex \ {0, 1, 2},
        duration \in Durations :
       (model # None /\ predict_flower(flower, prediction, duration))
       => /\ FaultedResponse(response')
          /\ prediction_counts' = prediction_counts]_vars

\* C6 as amended: a class index of 3 or more, or below -3, ends
\* predict_flower in a fault with no label returned and no label counter
\* incremented; the indices -3, -2, -1 index the label list from its end,
\* and the call returns setosa, versicolor, virginica respectively and
\* increments that label's counter.
C6_FaultOutsideListIndices ==
  [][\A flower \in Flowers, prediction \in ClassIndex \ {0, 1, 2},
        duration \in Durations :
       (model # None /\ predict_flower(flower, prediction, duration))
       => IF prediction >= 3 \/ prediction < -3
          THEN /\ FaultedResponse(response')
               /\ ~Returned(response')
               /\ prediction_counts' = prediction_counts
          ELSE /\ Returned(response')
               /\ response'.predicted_flower =
                    <<"setosa", "versicolor", "virginica">>[prediction + 4]
               /\ prediction_counts' =
                    [prediction_counts EXCEPT ![response'.predicted_flower] = @ + 1]]_vars

C6_Witness ==
  /\ FaultedResponse(response)
  /\ SumCounts(prediction_counts) < requests
  /\ SumCounts(prediction_counts) > 0

\* C7: get_stats, get_metrics and health_check leave the per-label counters,
\* the total-call counter, the cumulative latency and the history unchanged,
\* wherever they fall between predict requests.
C7_ReportsArePureReads ==
  [][(get_stats \/ get_metrics \/ health_check)
       => /\ prediction_counts' = prediction_counts
          /\ total_api_calls' = total_api_calls
          /\ total_prediction_time' = total_prediction_time
          /\ prediction_history' = prediction_history]_vars

C7_Witness ==
  /\ response.endpoint \in {"/stats", "/metrics", "/health"}
  /\ total_api_calls > 0
  /\ Len(prediction_history) > 0
  /\ requests < MaxCalls

\* the number a sample line of /metrics shows
SampleValue(name, label) ==
  ParseInt((CHOOSE line \in {Metrics[i] : i \in 1..Len(Metrics)} :
              line.name = name /\ line.label = label).value)

\* C8: in every state the api_calls_total of /metrics is the total-call
\* counter, each flower_predictions_total line is that label's counter, and
\* total_predictions_made is the sum of the three per-label counters, the
\* same total_predictions /stats and /health report.
C8_MetricsMatchCounters ==
  /\ SampleValue("api_calls_total", "") = total_api_calls
  /\ \A label \in {"setosa", "versicolor", "virginica"} :
       SampleValue("flower_predictions_total", label) = prediction_counts[label]
  /\ SampleValue("total_predictions_made", "") =
       prediction_counts["setosa"] + prediction_counts["versicolor"]
         + prediction_counts["virginica"]
  /\ SampleValue("total_predictions_made", "") = Statistics.total_predictions
  /\ SampleValue("total_predictions_made", "") = Health.total_predictions

C8_Witness ==
  /\ response.endpoint = "/metrics"
  /\ response.metrics = Metrics
  /\ total_api_calls >= 10
  /\ SumCounts(prediction_counts) >= 10
  /\ total_api_calls > SumCounts(prediction_counts)

\* the position of a label in the order setosa, versicolor, virginica
Position(label) == CHOOSE i \in 1..3 : <<"setosa", "versicolor", "virginica">>[i] = label

\* C9: most_predicted of /stats is "None" when all three counts are zero;
\* otherwise it is a label whose count is the maximum, and the first such
\* label in the order setosa, versicolor, virginica.
C9_MostPredictedFirstMaximum ==
  LET most == Statistics.most_predicted
      zero == \A label \in Labels : prediction_counts[label] = 0
  IN IF zero THEN most = "None"
     ELSE /\ most \in Labels
          /\ \A label \in Labels : prediction_counts[label] <= prediction_counts[most]
          /\ \A label \in Labels :
               prediction_counts[label] = prediction_counts[most]
                 => Position(most) <= Position(label)

C9_Witness ==
  /\ prediction_counts["setosa"] = 0
  /\ prediction_counts["versicolor"] = 1
  /\ prediction_counts["virginica"] = 1
  /\ Statistics.most_predicted = "versicolor"

\* C10: the average duration of /stats is the cumulative latency divided by
\* the sum of the per-label counts, and zero when the sum is zero; the grade
\* is "A+" when the average is below 0.1 s, "A" when it is at least 0.1 s and
\* below 0.5 s, "B" otherwise; a fresh process reports "A+".
C10_AverageAndGrade ==
  LET total == prediction_counts["setosa"] + prediction_counts["versicolor"]
                 + prediction_counts["virginica"]
      avg == AvgTime(total)
      grade == Statistics.performance_grade
  IN /\ total = 0 => avg.num = 0 /\ grade = "A+"
     /\ total > 0 =>
          /\ avg.num * total * UnitsPerSecond = total_prediction_time * avg.den
          /\ grade = "A+" <=> 10 * total_prediction_time < 1 * total * UnitsPerSecond
          /\ grade = "A" <=> /\ 10 * total_prediction_time >= 1 * total * UnitsPerSecond
                             /\ 10 * total_prediction_time < 5 * total * UnitsPerSecond
          /\ grade = "B" <=> 10 * total_prediction_time >= 5 * total * UnitsPerSecond
     /\ requests = 0 => grade = "A+"

C10_Witness ==
  /\ SumCounts(prediction_counts) = 2
  /\ total_prediction_time = 10
  /\ Statistics.performance_grade = "B"

\* thread t's call has returned a label (it neither faulted nor found the
\* model missing)
Completed(t) == Frame(t).pc = "done" /\ Frame(t).event # NoEvent

\* C11: with two predict requests running concurrently and each += a load
\* and a later store, once both requests are over the total-call counter has
\* grown by 2 when the second load saw the first store and by only 1 when
\* both loads saw the same value (a lost update); likewise for the counter of
\* a label both requests predicted.  The lost update is reachable.
C11_LostUpdate ==
  (AllDone /\ model # None) =>
    /\ total_api_calls =
         SettledCalls + (IF Frame(1).calls = Frame(2).calls THEN 1 ELSE 2)
    /\ (/\ Completed(1) /\ Completed(2)
        /\ Frame(1).predicted_flower = Frame(2).predicted_flower)
       => prediction_counts[Frame(1).predicted_flower] =
            IF Frame(1).count = Frame(2).count THEN Frame(1).count + 1
            ELSE IF Frame(1).count < Frame(2).count THEN Frame(1).count + 2
            ELSE Frame(2).count + 2

C11_Witness ==
  /\ Completed(1) /\ Completed(2)
  /\ requests = SettledCalls + 2
  /\ total_api_calls = SettledCalls + 1
  /\ Frame(1).predicted_flower = Frame(2).predicted_flower
  /\ prediction_counts[Frame(1).predicted_flower] = Frame(1).count + 1
  /\ Frame(1).count = Frame(2).count

\* the event of thread t's completed call is not in the history
Missing(t) == \A i \in 1..Len(prediction_history) : prediction_history[i] # Frame(t).event

\* lst without its i-th entry
Without(lst, i) == SubSeq(lst, 1, i - 1) \o SubSeq(lst, i + 1, Len(lst))

\* C12: with two predict requests running concurrently, the store of the
\* sliced copy can discard the event the other request appended after the
\* slice: once both requests have returned the history holds at most 50
\* entries and is the last 50 of the appended events with at most one of the
\* two concurrent events dropped, and when an event is dropped the history is
\* the copy the other request sliced and stored.  A state with a completed
\* prediction's event missing, one event at most appended after it, is
\* reachable.
C12_TrimDiscardsAppend ==
  (Completed(1) /\ Completed(2)) =>
    /\ Len(prediction_history) <= 50
    /\ \/ prediction_history = LastN(events, 50)
       \/ \E i \in {Len(events) - 1, Len(events)} :
            prediction_history = LastN(Without(events, i), 50)
    /\ \A t \in Threads :
         Missing(t) => \E u \in Threads \ {t} :
                         /\ prediction_history = Frame(u).trimmed
                         /\ Len(events) > 50

C12_Witness ==
  /\ Completed(1) /\ Completed(2)
  /\ Missing(2)
  /\ Frame(2).appended = "global"
  /\ ~Missing(1)
  /\ events[Len(events)] = Frame(2).event
  /\ Len(prediction_history) = 50

\* C13: a predict_flower call that faults at the label lookup has incremented
\* the total-call counter and changed nothing else of the store (per-label
\* counters, cumulative latency, history), so after it the total-call counter
\* is strictly greater than the sum of the per-label counts; with requests
\* handled one at a time the total-call counter is never less than that sum.
C13_FaultCountsCallOnly ==
  /\ [](total_api_calls >= prediction_counts["setosa"]
          + prediction_counts["versicolor"] + prediction_counts["virginica"])
  /\ [][\A flower \in Flowers, prediction \in ClassIndex, duration \in Durations :
          (/\ model # None
           /\ prediction >= 3 \/ prediction < -3
           /\ predict_flower(flower, prediction, duration))
          => /\ FaultedResponse(response')
             /\ total_api_calls' = total_api_calls + 1
             /\ prediction_counts' = prediction_counts
             /\ total_prediction_time' = total_prediction_time
             /\ prediction_history' = prediction_history
             /\ total_api_calls' > prediction_counts'["setosa"]
                  + prediction_counts'["versicolor"] + prediction_counts'["virginica"]]_vars

C13_Witness ==
  /\ FaultedResponse(response)
  /\ Len(prediction_history) = 1
  /\ SumCounts(prediction_counts) = 1
  /\ total_api_calls = 2

====
